---- MODULE Spec2Model ----
(***************************************************************************)
(* The notebook 01_Exploring_EMIT_L2A_Reflectance.ipynb as a state machine. *)
(* The state is the kernel's namespace (refl, wvl, ds, b650, ...), the     *)
(* file behind fp, the cell about to run (pc) and the error the session    *)
(* shows (err).  One action per code cell, run top to bottom; a cell that  *)
(* raises stops the run.  The two masking cells may be run again, and the  *)
(* displayed map takes pointer and tap events.                             *)
(*                                                                         *)
(* Units: reflectance in hundredths (-0.01 is -1, 1.0 is 100), wavelengths *)
(* in nm, coordinates in thousandths of a degree.  Arithmetic is exact     *)
(* (rational); floating-point rounding is not modelled.                    *)
(***************************************************************************)
EXTENDS Integers, Sequences, FiniteSets, TLC

VARIABLES file, pc, err,
          refl, wvl, ds, b650, loc, ds_geo, b560, b470,
          r, g, b, rgb, ds_rgb, map,
          posxy, clickxy, point_dmap, click_dmap

vars == <<file, pc, err, refl, wvl, ds, b650, loc, ds_geo, b560, b470,
          r, g, b, rgb, ds_rgb, map, posxy, clickxy, point_dmap, click_dmap>>

(***************************************************************************)
(* Bounds of the model.                                                    *)
(***************************************************************************)
\* sensor-geometry pixels (downtrack x crosstrack, flattened; GLT indices are 1-based)
NPix == 2
\* spectral bands
NBands == 3
\* rows and columns of the orthorectified grid
NLat == 2
NLon == 2

(***************************************************************************)
(* Program constants.                                                      *)
(***************************************************************************)
\* -0.01, the value given to the water-absorption bands
Sentinel == -1
\* target wavelengths of the nearest-band lookups
Red == 650
Green == 560
Blue == 470
\* 0.2, the brightness the band mean is scaled to
Fifth == 20
\* nan = 1: missing cells are drawn white
White == 100
\* initial position of both streams
InitX == -61833
InitY == -39710
\* the missing value (numpy nan): a code no reflectance or wavelength takes
NaN == -100000

Pixels == 1..NPix
Bands == 0..(NBands - 1)
Lats == 0..(NLat - 1)
Lons == 0..(NLon - 1)

IsNaN(v) == v = NaN

\* A name of the namespace holds no object ({}) or one object ({v}).
Undefined == {}
Defined(n) == n # {}
Val(n) == CHOOSE v \in n : TRUE

(***************************************************************************)
(* The file behind fp: the root group's variables and the named groups.    *)
(***************************************************************************)
\* grid coordinates produced by the geometry lookup table
GridLatitude == [i \in Lats |-> -39700 - 10 * i]
GridLongitude == [j \in Lons |-> -61840 + 10 * j]

\* glt: for each grid cell the sensor pixel it shows, 0 where there is none
DefaultGlt == [c \in Lats \X Lons |-> (c[1] * NLon + c[2] + 1) % (NPix + 1)]

DefaultWavelengths == [k \in Bands |-> Blue + 90 * k]
DefaultReflectance == [c \in Pixels \X Bands |-> 25 * c[1]]

File(reflectance, wavelengths) ==
    [root |-> [reflectance |-> reflectance],
     groups |-> [sensor_band_parameters |-> [wavelengths |-> wavelengths],
                 location |-> [glt |-> DefaultGlt,
                               lat |-> GridLatitude, lon |-> GridLongitude]]]

\* every cell independently: the sentinel or a valid value
MaskValues == {Sentinel, 50}
\* one value per band in all pixels: bands whose means differ
BandValues == {0, 50, 100, 150}
\* one value per pixel in all bands (missing pixels, and the cases of a band mean)
FlatValues == {NaN, -5, 0, Fifth, 50, 100, 150}
WavelengthValues == {NaN, Blue, 640, 660}

MaskFiles ==
    {File(a, DefaultWavelengths) : a \in [Pixels \X Bands -> MaskValues]}
BandFiles ==
    {File([c \in Pixels \X Bands |-> s[c[2]]], DefaultWavelengths) :
        s \in [Bands -> BandValues]}
FlatFiles ==
    {File([c \in Pixels \X Bands |-> s[c[1]]], DefaultWavelengths) :
        s \in [Pixels -> FlatValues]}
LookupFiles ==
    {File(DefaultReflectance, w) : w \in [Bands -> WavelengthValues]}

\* files lacking a variable or a group
WellFormed == File(DefaultReflectance, DefaultWavelengths)
NoLocation == [n \in {"sensor_band_parameters"} |-> WellFormed.groups[n]]
NoBandParameters == [n \in {"location"} |-> WellFormed.groups[n]]
MalformedFiles ==
    { [WellFormed EXCEPT !.root = [n \in {} |-> 0]],
      [WellFormed EXCEPT !.groups = NoLocation],
      [WellFormed EXCEPT !.groups = NoBandParameters],
      [WellFormed EXCEPT !.groups.sensor_band_parameters = [n \in {} |-> 0]] }

Files == MaskFiles \cup BandFiles \cup FlatFiles \cup LookupFiles \cup MalformedFiles

(***************************************************************************)
(* Cells in notebook order.                                                *)
(***************************************************************************)
Cells == << "open_refl", "open_wvl", "merge", "plot_raw", "mask_ds", "del",
            "plot_masked", "find_b650", "open_loc", "apply_glt", "mask_geo",
            "find_bands", "gamma", "map", "streams", "interactive" >>

CellIndex(c) == CHOOSE i \in DOMAIN Cells : Cells[i] = c
After(c) == Cells[CellIndex(c) + 1]
\* the run has completed cell c
Past(c) == pc # "halted" /\ CellIndex(pc) > CellIndex(c)

Init ==
    /\ file \in Files
    /\ pc = "open_refl"
    /\ err = ""
    /\ refl = Undefined /\ wvl = Undefined /\ ds = Undefined
    /\ b650 = Undefined /\ loc = Undefined /\ ds_geo = Undefined
    /\ b560 = Undefined /\ b470 = Undefined
    /\ r = Undefined /\ g = Undefined /\ b = Undefined
    /\ rgb = Undefined /\ ds_rgb = Undefined /\ map = Undefined
    /\ posxy = Undefined /\ clickxy = Undefined
    /\ point_dmap = Undefined /\ click_dmap = Undefined

\* a cell that raises: the error is shown, nothing is assigned, the run stops
Raise(e) == err' = e /\ pc' = "halted"
Done(c) == err' = "" /\ pc' = After(c)

\* refl = xr.open_dataset(fp)
OpenRefl ==
    /\ pc = "open_refl"
    /\ refl' = {file.root}
    /\ Done("open_refl")
    /\ UNCHANGED <<file, wvl, ds, b650, loc, ds_geo, b560, b470, r, g, b, rgb,
                   ds_rgb, map, posxy, clickxy, point_dmap, click_dmap>>

\* wvl = xr.open_dataset(fp, group='sensor_band_parameters')
OpenWvl ==
    /\ pc = "open_wvl"
    /\ IF "sensor_band_parameters" \in DOMAIN file.groups
       THEN wvl' = {file.groups.sensor_band_parameters} /\ Done("open_wvl")
       ELSE wvl' = wvl /\ Raise("OSError")
    /\ UNCHANGED <<file, refl, ds, b650, loc, ds_geo, b560, b470, r, g, b, rgb,
                   ds_rgb, map, posxy, clickxy, point_dmap, click_dmap>>

\* xr.merge: the variables of both datasets
Merge(d1, d2) ==
    [n \in DOMAIN d1 \cup DOMAIN d2 |-> IF n \in DOMAIN d1 THEN d1[n] ELSE d2[n]]

\* ds = xr.merge([refl, wvl])
MergeCell ==
    /\ pc = "merge"
    /\ ds' = {Merge(Val(refl), Val(wvl))}
    /\ Done("merge")
    /\ UNCHANGED <<file, refl, wvl, b650, loc, ds_geo, b560, b470, r, g, b, rgb,
                   ds_rgb, map, posxy, clickxy, point_dmap, click_dmap>>

\* ds.isel(downtrack=660,crosstrack=370).hvplot.line(y='reflectance',x='bands')
PlotRaw ==
    /\ pc = "plot_raw"
    /\ IF "reflectance" \in DOMAIN Val(ds)
       THEN Done("plot_raw")
       ELSE Raise("ValueError")
    /\ UNCHANGED <<file, refl, wvl, ds, b650, loc, ds_geo, b560, b470, r, g, b,
                   rgb, ds_rgb, map, posxy, clickxy, point_dmap, click_dmap>>

\* a != -0.01, elementwise: a missing value differs from every number
NotSentinel(v) == IsNaN(v) \/ v # Sentinel

\* MaskWhere with the condition a > -0.01 (every value below the sentinel is masked too)
MaskWhere_greater(a) == [c \in DOMAIN a |-> IF IsNaN(a[c]) \/ a[c] > Sentinel THEN a[c] ELSE NaN]

\* MaskWhere with the condition inverted (where keeps the cells equal to -0.01)
MaskWhere_inverted(a) == [c \in DOMAIN a |-> IF NotSentinel(a[c]) THEN NaN ELSE a[c]]

\* MaskWhere with the condition a != a.min() (the smallest valid value is masked,
\* whatever it is)
MaskWhere_min(a) ==
    [c \in DOMAIN a |->
        IF IsNaN(a[c]) \/ \E d \in DOMAIN a : ~IsNaN(a[d]) /\ a[d] < a[c]
        THEN a[c] ELSE NaN]

\* a.where(a != -0.01): the cells failing the condition become missing
MaskWhere(a) == [c \in DOMAIN a |-> IF NotSentinel(a[c]) THEN a[c] ELSE NaN]

\* ds['reflectance'] = ds['reflectance'].where(ds['reflectance']!=-0.01)
MaskDsStep ==
    IF "reflectance" \in DOMAIN Val(ds)
    THEN /\ ds' = {[Val(ds) EXCEPT !.reflectance = MaskWhere(@)]}
         /\ err' = ""
    ELSE /\ ds' = ds
         /\ err' = "KeyError"

MaskDs ==
    /\ pc = "mask_ds"
    /\ MaskDsStep
    /\ pc' = IF err' = "" THEN After("mask_ds") ELSE "halted"
    /\ UNCHANGED <<file, refl, wvl, b650, loc, ds_geo, b560, b470, r, g, b, rgb,
                   ds_rgb, map, posxy, clickxy, point_dmap, click_dmap>>

\* the masking cell of section 1.3 run again, later in the session
RerunMaskDs ==
    /\ Past("mask_ds")
    /\ MaskDsStep
    /\ pc' = pc
    /\ UNCHANGED <<file, refl, wvl, b650, loc, ds_geo, b560, b470, r, g, b, rgb,
                   ds_rgb, map, posxy, clickxy, point_dmap, click_dmap>>

\* del refl; del wvl
DelCell ==
    /\ pc = "del"
    /\ refl' = Undefined /\ wvl' = Undefined
    /\ Done("del")
    /\ UNCHANGED <<file, ds, b650, loc, ds_geo, b560, b470, r, g, b, rgb,
                   ds_rgb, map, posxy, clickxy, point_dmap, click_dmap>>

\* ds.isel(...).hvplot.line(y='reflectance',x='wavelengths')
PlotMasked ==
    /\ pc = "plot_masked"
    /\ IF {"reflectance", "wavelengths"} \subseteq DOMAIN Val(ds)
       THEN Done("plot_masked")
       ELSE Raise("KeyError")
    /\ UNCHANGED <<file, refl, wvl, ds, b650, loc, ds_geo, b560, b470, r, g, b,
                   rgb, ds_rgb, map, posxy, clickxy, point_dmap, click_dmap>>

\* abs(wavelengths - target), elementwise: missing stays missing
AbsDiff(w, target) ==
    [k \in DOMAIN w |-> IF IsNaN(w[k]) THEN NaN
                        ELSE IF w[k] >= target THEN w[k] - target
                        ELSE target - w[k]]

\* a < b after np.nanargmin has replaced the missing entries by +inf
LessInf(u, v) == ~IsNaN(u) /\ (IsNaN(v) \/ u < v)

RECURSIVE ArgMinFrom_last(_, _, _)
\* ArgMinFrom keeping the last smallest entry
ArgMinFrom_last(a, k, best) ==
    IF k \notin DOMAIN a THEN best
    ELSE ArgMinFrom_last(a, k + 1, IF ~LessInf(a[best], a[k]) THEN k ELSE best)

RECURSIVE ArgMinFrom(_, _, _)
\* np.argmin: scan from index k, keeping the first smallest entry seen
ArgMinFrom(a, k, best) ==
    IF k \notin DOMAIN a THEN best
    ELSE ArgMinFrom(a, k + 1, IF LessInf(a[k], a[best]) THEN k ELSE best)

\* np.nanargmin raises ValueError on an all-missing array
NanArgMinRaises(a) == \A k \in DOMAIN a : IsNaN(a[k])
NanArgMin(a) == ArgMinFrom(a, 1, 0)

\* np.nanargmin(abs(wavelengths - target))
NearestBandRaises(w, target) == NanArgMinRaises(AbsDiff(w, target))
NearestBand(w, target) == NanArgMin(AbsDiff(w, target))

\* b650 = np.nanargmin(abs(ds['wavelengths'].values-650)); ds.isel(bands=b650).hvplot.image
FindB650 ==
    /\ pc = "find_b650"
    /\ IF "wavelengths" \notin DOMAIN Val(ds)
       THEN b650' = b650 /\ Raise("KeyError")
       ELSE IF NearestBandRaises(Val(ds).wavelengths, Red)
       THEN b650' = b650 /\ Raise("ValueError")
       ELSE b650' = {NearestBand(Val(ds).wavelengths, Red)} /\ Done("find_b650")
    /\ UNCHANGED <<file, refl, wvl, ds, loc, ds_geo, b560, b470, r, g, b, rgb,
                   ds_rgb, map, posxy, clickxy, point_dmap, click_dmap>>

\* loc = xr.open_dataset(fp, group='location')
OpenLoc ==
    /\ pc = "open_loc"
    /\ IF "location" \in DOMAIN file.groups
       THEN loc' = {file.groups.location} /\ Done("open_loc")
       ELSE loc' = loc /\ Raise("OSError")
    /\ UNCHANGED <<file, refl, wvl, ds, b650, ds_geo, b560, b470, r, g, b, rgb,
                   ds_rgb, map, posxy, clickxy, point_dmap, click_dmap>>

\* gltxr.apply_gltx(fp): the reflectance gathered onto the grid through the
\* lookup table, missing where the table names no pixel; the band parameters
\* and the grid coordinates are coordinates of the result
ApplyGltxRaises(f) ==
    \/ "reflectance" \notin DOMAIN f.root
    \/ ~({"sensor_band_parameters", "location"} \subseteq DOMAIN f.groups)

ApplyGltx(f) ==
    LET glt == f.groups.location.glt
    IN [reflectance |->
            [c \in {<<e[1], e[2], k>> : e \in DOMAIN glt, k \in Bands} |->
                IF glt[<<c[1], c[2]>>] = 0 THEN NaN
                ELSE f.root.reflectance[<<glt[<<c[1], c[2]>>], c[3]>>]],
        wavelengths |-> f.groups.sensor_band_parameters.wavelengths,
        Latitude |-> f.groups.location.lat,
        Longitude |-> f.groups.location.lon]

\* import apply_glt_xarray as gltxr; ds_geo = gltxr.apply_gltx(fp)
ApplyGltCell ==
    /\ pc = "apply_glt"
    /\ IF ApplyGltxRaises(file)
       THEN ds_geo' = ds_geo /\ Raise("OSError")
       ELSE ds_geo' = {ApplyGltx(file)} /\ Done("apply_glt")
    /\ UNCHANGED <<file, refl, wvl, ds, b650, loc, b560, b470, r, g, b, rgb,
                   ds_rgb, map, posxy, clickxy, point_dmap, click_dmap>>

\* ds_geo = ds_geo.where(ds_geo['reflectance']!=-0.01): Dataset.where masks the
\* data variables (reflectance) and leaves the coordinates
MaskGeoStep ==
    IF "reflectance" \in DOMAIN Val(ds_geo)
    THEN /\ ds_geo' = {[Val(ds_geo) EXCEPT !.reflectance = MaskWhere(@)]}
         /\ err' = ""
    ELSE /\ ds_geo' = ds_geo
         /\ err' = "KeyError"

MaskGeo ==
    /\ pc = "mask_geo"
    /\ MaskGeoStep
    /\ pc' = IF err' = "" THEN After("mask_geo") ELSE "halted"
    /\ UNCHANGED <<file, refl, wvl, ds, b650, loc, b560, b470, r, g, b, rgb,
                   ds_rgb, map, posxy, clickxy, point_dmap, click_dmap>>

\* the masking cell of section 1.4 run again, later in the session
RerunMaskGeo ==
    /\ Past("mask_geo")
    /\ MaskGeoStep
    /\ pc' = pc
    /\ UNCHANGED <<file, refl, wvl, ds, b650, loc, b560, b470, r, g, b, rgb,
                   ds_rgb, map, posxy, clickxy, point_dmap, click_dmap>>

\* b650, b560, b470 = np.nanargmin(abs(ds_geo['wavelengths'].values - target))
FindBands ==
    /\ pc = "find_bands"
    /\ LET w == Val(ds_geo).wavelengths
       IN IF NearestBandRaises(w, Red)
          THEN UNCHANGED <<b650, b560, b470>> /\ Raise("ValueError")
          ELSE /\ b650' = {NearestBand(w, Red)}
               /\ IF NearestBandRaises(w, Green)
                  THEN UNCHANGED <<b560, b470>> /\ Raise("ValueError")
                  ELSE /\ b560' = {NearestBand(w, Green)}
                       /\ IF NearestBandRaises(w, Blue)
                          THEN UNCHANGED b470 /\ Raise("ValueError")
                          ELSE b470' = {NearestBand(w, Blue)} /\ Done("find_bands")
    /\ UNCHANGED <<file, refl, wvl, ds, loc, ds_geo, r, g, b, rgb,
                   ds_rgb, map, posxy, clickxy, point_dmap, click_dmap>>

(***************************************************************************)
(* Real numbers of the gamma scaling.  np.power raises a reflectance to    *)
(* gamma = log(0.2)/log(mean), which is irrational in general, so a result *)
(* is kept exactly as one of                                               *)
(*   nan, +inf, num v (v hundredths), or                                   *)
(*   pow v s n : (v/100) ^ (log(0.2) / log(s/(100 n))).                    *)
(* The band mean is the pair (s, n): the sum and the number of its valid   *)
(* cells (n = 0: the mean is missing).                                     *)
(***************************************************************************)
NanTerm == [k |-> "nan", v |-> 0, s |-> 0, n |-> 0]
InfTerm == [k |-> "inf", v |-> 0, s |-> 0, n |-> 0]
Num(v) == [k |-> "num", v |-> v, s |-> 0, n |-> 0]
Pow(v, s, n) == [k |-> "pow", v |-> v, s |-> s, n |-> n]

RECURSIVE SumValid(_, _)
SumValid(a, S) ==
    IF S = {} THEN 0
    ELSE LET c == CHOOSE e \in S : TRUE
         IN (IF IsNaN(a[c]) THEN 0 ELSE a[c]) + SumValid(a, S \ {c})

\* np.nanmean: the mean of the cells that are not missing
NanMean(a) ==
    [s |-> SumValid(a, DOMAIN a),
     n |-> Cardinality({c \in DOMAIN a : ~IsNaN(a[c])})]

\* GammaRaises with the quotient taken as numpy takes it (inf, no exception)
GammaRaises_nodiv(m) == IF m.n > 0 /\ m.s <= 0 THEN "ValueError" ELSE ""

\* math.log(0.2)/math.log(mean): math.log raises ValueError on a mean <= 0,
\* returns nan for nan, and the division raises on log(1) = 0
GammaRaises(m) ==
    IF m.n > 0 /\ m.s <= 0 THEN "ValueError"
    ELSE IF m.n > 0 /\ m.s = 100 * m.n THEN "ZeroDivisionError"
    ELSE ""

GammaIsNaN(m) == m.n = 0
\* log(0.2) < 0, so gamma > 0 exactly when log(mean) < 0
GammaPositive(m) == m.s < 100 * m.n
\* gamma is an integer only for mean = 0.2 (gamma = 1) and mean = 1/0.2 (gamma = -1)
GammaIsOne(m) == m.s = Fifth * m.n
GammaIsMinusOne(m) == m.s * Fifth = 100 * 100 * m.n

\* np.power(v, gamma), one cell
Power(v, m) ==
    IF v = 100 THEN Num(100)
    ELSE IF IsNaN(v) \/ GammaIsNaN(m) THEN NanTerm
    ELSE IF GammaIsOne(m) THEN Num(v)
    ELSE IF v = 0 THEN (IF GammaPositive(m) THEN Num(0) ELSE InfTerm)
    ELSE IF v < 0 /\ ~GammaIsMinusOne(m) THEN NanTerm
    ELSE Pow(v, m.s, m.n)

\* t < 0 and t > 1 for a result that is not missing
Below0(t) == t.k \in {"num", "pow"} /\ t.v < 0
Above1(t) ==
    \/ t.k = "inf"
    \/ t.k = "num" /\ t.v > 100
    \/ t.k = "pow" /\ t.v > 0 /\ ((t.v > 100) <=> (t.s < 100 * t.n))

\* Clip with the lower limit only
Clip_lower(t) == IF t.k # "nan" /\ t.k # "inf" /\ t.v < 0 THEN Num(0) ELSE t

\* .clip(0,1): missing stays missing
Clip(t) ==
    IF t.k = "nan" THEN t
    ELSE IF Below0(t) THEN Num(0)
    ELSE IF Above1(t) THEN Num(100)
    ELSE t

\* NanToNum with the default fill, nan = 0
NanToNum_zero(t) == IF t.k = "nan" THEN Num(0) ELSE t

\* np.nan_to_num(scaled, nan = 1)
NanToNum(t) == IF t.k = "nan" THEN Num(White) ELSE t

\* ds['reflectance'].isel(bands=band).values: a view of one band
BandArray(d, band) ==
    [c \in {<<e[1], e[2]>> : e \in DOMAIN d.reflectance} |->
        d.reflectance[<<c[1], c[2], band>>]]

\* gamma_adjust that fills the missing cells in place: np.nan_to_num(array, copy=False, nan=1)
gamma_adjust_inplace(d, band) ==
    LET array == BandArray(d, band)
        mean == NanMean(array)
    IN [raises |-> GammaRaises(mean),
        scaled |-> [c \in DOMAIN array |->
                       IF IsNaN(array[c]) THEN Num(White)
                       ELSE IF Below0(Power(array[c], mean)) THEN Num(0)
                       ELSE IF Above1(Power(array[c], mean)) THEN Num(100)
                       ELSE Power(array[c], mean)],
        array |-> IF GammaRaises(mean) # "" THEN array
                  ELSE [c \in DOMAIN array |-> IF IsNaN(array[c]) THEN White ELSE array[c]]]

\* gamma_adjust(ds, band): the exception it raises ("" for none), the array
\* it returns, and what the view array holds when it returns: np.power,
\* clip and nan_to_num each allocate their result, so the view is not written
gamma_adjust(d, band) ==
    LET array == BandArray(d, band)
        mean == NanMean(array)
    IN [raises |-> GammaRaises(mean),
        scaled |-> [c \in DOMAIN array |-> NanToNum(Clip(Power(array[c], mean)))],
        array |-> array]

\* the dataset whose band is viewed by an array holding a
WithBand(d, band, a) ==
    [d EXCEPT !.reflectance =
        [c \in DOMAIN @ |-> IF c[3] = band THEN a[<<c[1], c[2]>>] ELSE @[c]]]

\* np.stack([r,g,b]): a new first axis of length 3
Stack(a0, a1, a2) ==
    [c \in {<<i, e[1], e[2]>> : i \in 0..2, e \in DOMAIN a0} |->
        IF c[1] = 0 THEN a0[<<c[2], c[3]>>]
        ELSE IF c[1] = 1 THEN a1[<<c[2], c[3]>>]
        ELSE a2[<<c[2], c[3]>>]]

\* xr.Dataset(data_vars={'RGB': (['bands','Latitude','Longitude'], rgb)}, coords)
RgbDataset(d, stacked) ==
    [RGB |-> stacked,
     bands |-> [i \in 0..2 |-> i],
     Latitude |-> d.Latitude,
     Longitude |-> d.Longitude]

\* r = gamma_adjust(ds_geo,b650); g = ...; b = ...; rgb = np.stack([r,g,b]);
\* ds_rgb = xr.Dataset(...)
GammaCell ==
    /\ pc = "gamma"
    /\ LET d0 == Val(ds_geo)
           c0 == gamma_adjust(d0, Val(b650))
           d1 == WithBand(d0, Val(b650), c0.array)
           c1 == gamma_adjust(d1, Val(b560))
           d2 == WithBand(d1, Val(b560), c1.array)
           c2 == gamma_adjust(d2, Val(b470))
           d3 == WithBand(d2, Val(b470), c2.array)
       IN IF c0.raises # ""
          THEN UNCHANGED <<ds_geo, r, g, b, rgb, ds_rgb>> /\ Raise(c0.raises)
          ELSE IF c1.raises # ""
          THEN /\ r' = {c0.scaled} /\ ds_geo' = {d1}
               /\ UNCHANGED <<g, b, rgb, ds_rgb>> /\ Raise(c1.raises)
          ELSE IF c2.raises # ""
          THEN /\ r' = {c0.scaled} /\ g' = {c1.scaled} /\ ds_geo' = {d2}
               /\ UNCHANGED <<b, rgb, ds_rgb>> /\ Raise(c2.raises)
          ELSE /\ r' = {c0.scaled} /\ g' = {c1.scaled} /\ b' = {c2.scaled}
               /\ ds_geo' = {d3}
               /\ rgb' = {Stack(c0.scaled, c1.scaled, c2.scaled)}
               /\ ds_rgb' = {RgbDataset(d3, Stack(c0.scaled, c1.scaled, c2.scaled))}
               /\ Done("gamma")
    /\ UNCHANGED <<file, refl, wvl, ds, b650, loc, b560, b470,
                   map, posxy, clickxy, point_dmap, click_dmap>>

\* map = ds_rgb.hvplot.rgb(x='Longitude', y='Latitude', bands='bands')
MapCell ==
    /\ pc = "map"
    /\ map' = {[image |-> Val(ds_rgb).RGB,
                x |-> Val(ds_rgb).Longitude, y |-> Val(ds_rgb).Latitude]}
    /\ Done("map")
    /\ UNCHANGED <<file, refl, wvl, ds, b650, loc, ds_geo, b560, b470, r, g, b,
                   rgb, ds_rgb, posxy, clickxy, point_dmap, click_dmap>>

Distance(u, v) == IF u >= v THEN u - v ELSE v - u

\* .sel(..., method='nearest') on one coordinate: the index of the nearest
\* coordinate value, the larger value when two are equally near
NearestIndex(coord, v) ==
    CHOOSE i \in DOMAIN coord :
        \A j \in DOMAIN coord :
            \/ Distance(coord[i], v) < Distance(coord[j], v)
            \/ Distance(coord[i], v) = Distance(coord[j], v) /\ coord[i] >= coord[j]

\* ds_geo.sel(Longitude=x,Latitude=y,method='nearest').hvplot.line(
\*     y='reflectance',x='wavelengths',color=...): the curve drawn
SpectrumPlot(d, x, y, color) ==
    LET i == NearestIndex(d.Latitude, y)
        j == NearestIndex(d.Longitude, x)
    IN [x |-> d.wavelengths,
        y |-> [k \in DOMAIN d.wavelengths |-> d.reflectance[<<i, j, k>>]],
        color |-> color]

\* point_spectra reading the tapped position once there is one
point_spectra_shared(x, y) ==
    IF clickxy = {}
    THEN SpectrumPlot(Val(ds_geo), x, y, "#1b9e77")
    ELSE SpectrumPlot(Val(ds_geo), Val(clickxy)[1], Val(clickxy)[2], "#1b9e77")

\* click_spectra with the coordinates exchanged: sel(Longitude=y, Latitude=x)
click_spectra_swapped(x, y) == SpectrumPlot(Val(ds_geo), y, x, "#d95f02")

point_spectra(x, y) == SpectrumPlot(Val(ds_geo), x, y, "#1b9e77")
click_spectra(x, y) == SpectrumPlot(Val(ds_geo), x, y, "#d95f02")

\* posxy = hv.streams.PointerXY(source=map, x=-61.833, y=-39.710); clickxy = hv.streams.Tap(...)
\* point_dmap = hv.DynamicMap(point_spectra, streams=[posxy]); click_dmap likewise;
\* displaying (map + click_dmap*point_dmap) renders both from the initial position
StreamsCell ==
    /\ pc = "streams"
    /\ posxy' = {<<InitX, InitY>>}
    /\ clickxy' = {<<InitX, InitY>>}
    /\ point_dmap' = {point_spectra(InitX, InitY)}
    /\ click_dmap' = {click_spectra(InitX, InitY)}
    /\ Done("streams")
    /\ UNCHANGED <<file, refl, wvl, ds, b650, loc, ds_geo, b560, b470, r, g, b,
                   rgb, ds_rgb, map>>

\* positions on the map the pointer is moved to and tapped at
EventPositions ==
    {<<-61831, -39703>>, <<-61835, -39709>>}

\* the pointer moves over the map: the PointerXY stream takes the position and
\* its subscriber point_dmap calls point_spectra
PointerMove(x, y) ==
    /\ pc = "interactive"
    /\ posxy' = {<<x, y>>}
    /\ point_dmap' = {point_spectra(x, y)}
    /\ UNCHANGED <<file, pc, err, refl, wvl, ds, b650, loc, ds_geo, b560, b470,
                   r, g, b, rgb, ds_rgb, map, clickxy, click_dmap>>

\* the map is tapped: the Tap stream takes the position and its subscriber
\* click_dmap calls click_spectra
Tap(x, y) ==
    /\ pc = "interactive"
    /\ clickxy' = {<<x, y>>}
    /\ click_dmap' = {click_spectra(x, y)}
    /\ UNCHANGED <<file, pc, err, refl, wvl, ds, b650, loc, ds_geo, b560, b470,
                   r, g, b, rgb, ds_rgb, map, posxy, point_dmap>>

PointerEvent == \E p \in EventPositions : PointerMove(p[1], p[2])
TapEvent == \E p \in EventPositions : Tap(p[1], p[2])

Next == OpenRefl \/ OpenWvl \/ MergeCell \/ PlotRaw \/ MaskDs \/ RerunMaskDs
        \/ DelCell \/ PlotMasked \/ FindB650 \/ OpenLoc \/ ApplyGltCell
        \/ MaskGeo \/ RerunMaskGeo \/ FindBands \/ GammaCell \/ MapCell
        \/ StreamsCell \/ PointerEvent \/ TapEvent

Spec == Init /\ [][Next]_vars

(***************************************************************************)
(* The datasets as first built from the file, before either masking cell.  *)
(***************************************************************************)
UnmaskedDs == file.root.reflectance
UnmaskedGeo == ApplyGltx(file).reflectance

\* after is before with exactly the sentinel cells turned missing
MaskedFrom(before, after) ==
    /\ DOMAIN after = DOMAIN before
    /\ \A c \in DOMAIN before :
        /\ IsNaN(after[c]) <=> (before[c] = Sentinel \/ IsNaN(before[c]))
        /\ ~IsNaN(after[c]) => after[c] = before[c]

\* C1: each masking step (ds['reflectance'].where on the sensor-geometry
\* dataset, ds_geo.where on the gridded one) leaves a reflectance cell missing
\* if and only if it was -0.01 or already missing before the step, and leaves
\* every other cell with the value it had.
C1_MaskingCells ==
    [][ /\ (pc = "mask_ds" /\ pc' # "halted") =>
              MaskedFrom(Val(ds).reflectance, Val(ds').reflectance)
        /\ (pc = "mask_geo" /\ pc' # "halted") =>
              MaskedFrom(Val(ds_geo).reflectance, Val(ds_geo').reflectance) ]_vars

\* both datasets masked, each with a sentinel cell now missing and a kept
\* value; the grid also has a cell that was missing before
C1_Witness ==
    /\ Past("mask_geo")
    /\ \E c \in DOMAIN UnmaskedDs :
          UnmaskedDs[c] = Sentinel /\ IsNaN(Val(ds).reflectance[c])
    /\ \E c \in DOMAIN UnmaskedDs :
          UnmaskedDs[c] = 50 /\ Val(ds).reflectance[c] = 50
    /\ \E c \in DOMAIN UnmaskedGeo :
          UnmaskedGeo[c] = Sentinel /\ IsNaN(Val(ds_geo).reflectance[c])
    /\ \E c \in DOMAIN UnmaskedGeo :
          IsNaN(UnmaskedGeo[c]) /\ IsNaN(Val(ds_geo).reflectance[c])
    /\ \E c \in DOMAIN UnmaskedGeo :
          UnmaskedGeo[c] = 50 /\ Val(ds_geo).reflectance[c] = 50

\* the cells of one band: the last index of a cell is its band
BandCells(a, band) == {c \in DOMAIN a : c[Len(c)] = band}
TurnedMissing(before, after, band) ==
    {c \in BandCells(before, band) : ~IsNaN(before[c]) /\ IsNaN(after[c])}
SentinelCells(before, band) ==
    {c \in BandCells(before, band) : before[c] = Sentinel}

\* C2: for every band, the number of cells masking turns into missing equals
\* the number of cells holding the sentinel -0.01 in the unmasked array.
C2_MaskedCount ==
    /\ Past("mask_ds") =>
          \A band \in Bands :
              Cardinality(TurnedMissing(UnmaskedDs, Val(ds).reflectance, band))
                  = Cardinality(SentinelCells(UnmaskedDs, band))
    /\ Past("mask_geo") =>
          \A band \in Bands :
              Cardinality(TurnedMissing(UnmaskedGeo, Val(ds_geo).reflectance, band))
                  = Cardinality(SentinelCells(UnmaskedGeo, band))

\* masked arrays whose bands hold different numbers of sentinels, none to all
C2_Witness ==
    /\ Past("mask_ds")
    /\ \E k1, k2 \in Bands :
          /\ Cardinality(SentinelCells(UnmaskedDs, k1)) = 0
          /\ Cardinality(SentinelCells(UnmaskedDs, k2)) = NPix
          /\ Cardinality(TurnedMissing(UnmaskedDs, Val(ds).reflectance, k2)) = NPix
    /\ \E k3 \in Bands :
          /\ Cardinality(SentinelCells(UnmaskedDs, k3)) = 1
          /\ Cardinality(TurnedMissing(UnmaskedDs, Val(ds).reflectance, k3)) = 1

\* band i is a nearest band of table w to target: not missing, no band
\* nearer, and no band of a lower index as near
IsNearestBand(w, target, i) ==
    /\ i \in DOMAIN w
    /\ ~IsNaN(w[i])
    /\ \A j \in DOMAIN w :
          ~IsNaN(w[j]) =>
              /\ Distance(w[i], target) <= Distance(w[j], target)
              /\ j < i => Distance(w[i], target) < Distance(w[j], target)

\* C3: for a wavelength table with a non-missing entry, the nearest-band
\* lookup for 650, 560 and 470 returns the band a linear scan returns: one of
\* minimum |wavelength - target| among the non-missing bands, the lowest
\* index on a tie.
C3_NearestBand ==
    /\ (Past("find_b650") /\ ~Past("find_bands")) =>
          IsNearestBand(Val(ds).wavelengths, Red, Val(b650))
    /\ Past("find_bands") =>
          /\ IsNearestBand(Val(ds_geo).wavelengths, Red, Val(b650))
          /\ IsNearestBand(Val(ds_geo).wavelengths, Green, Val(b560))
          /\ IsNearestBand(Val(ds_geo).wavelengths, Blue, Val(b470))

\* a table with a missing entry and two bands equally near 650: the lookup
\* took the lower one
C3_Witness ==
    /\ Past("find_bands")
    /\ LET w == Val(ds_geo).wavelengths
       IN /\ \E k \in DOMAIN w : IsNaN(w[k])
          /\ \E i, j \in DOMAIN w :
                /\ i < j /\ w[i] # w[j]
                /\ Distance(w[i], Red) = Distance(w[j], Red)
                /\ Val(b650) = i

\* a scaled value lies in [0,1]
InUnitInterval(t) ==
    \/ t.k = "num" /\ 0 <= t.v /\ t.v <= 100
    \/ t.k = "pow" /\ t.v > 0 /\ ((t.v < 100) <=> (t.s < 100 * t.n))

\* C5: when gamma_adjust succeeds for the three chosen bands, the stacked
\* array has shape (3, latitudes, longitudes), the spatial shape of a source
\* band and of the coordinates of ds_rgb, and all its values lie in [0,1].
C5_RgbShapeAndRange ==
    Defined(ds_rgb) =>
        LET d == Val(ds_geo)
            q == Val(ds_rgb)
        IN /\ Val(rgb) = q.RGB
           /\ DOMAIN q.RGB = (0..2) \X (DOMAIN d.Latitude) \X (DOMAIN d.Longitude)
           /\ {<<c[1], c[2]>> : c \in DOMAIN d.reflectance}
                  = (DOMAIN q.Latitude) \X (DOMAIN q.Longitude)
           /\ q.Latitude = d.Latitude /\ q.Longitude = d.Longitude
           /\ \A c \in DOMAIN q.RGB : InUnitInterval(q.RGB[c])

\* an RGB dataset built from a band with a negative cell, a cell above 1 and
\* a missing cell
C5_Witness ==
    /\ Defined(ds_rgb)
    /\ LET a == Val(ds_geo).reflectance
       IN /\ \E c \in BandCells(a, Val(b650)) : a[c] < 0 /\ ~IsNaN(a[c])
          /\ \E c \in BandCells(a, Val(b650)) : a[c] > 100
          /\ \E c \in BandCells(a, Val(b650)) : IsNaN(a[c])

\* the plot shows the spectrum of a grid pixel nearest to position xy
ShowsNearest(plot, xy) ==
    LET d == Val(ds_geo)
    IN \E i \in DOMAIN d.Latitude, j \in DOMAIN d.Longitude :
          /\ \A i2 \in DOMAIN d.Latitude :
                Distance(d.Latitude[i], xy[2]) <= Distance(d.Latitude[i2], xy[2])
          /\ \A j2 \in DOMAIN d.Longitude :
                Distance(d.Longitude[j], xy[1]) <= Distance(d.Longitude[j2], xy[1])
          /\ plot.x = d.wavelengths
          /\ plot.y = [k \in DOMAIN d.wavelengths |-> d.reflectance[<<i, j, k>>]]

\* C6: under pointer moves and taps on the map, the click plot shows the
\* spectrum of the grid pixel nearest the last tap (the initial position
\* -61.833, -39.710 before any tap) and pointer moves do not change it; the
\* hover plot shows the pixel nearest the last pointer position and taps do
\* not change it.
C6_PlotsFollowStreams ==
    [][ pc' = "interactive" =>
          /\ ShowsNearest(Val(click_dmap'), Val(clickxy'))
          /\ ShowsNearest(Val(point_dmap'), Val(posxy'))
          /\ pc = "streams" =>
                posxy' = {<<InitX, InitY>>} /\ clickxy' = {<<InitX, InitY>>}
          /\ (pc = "interactive" /\ posxy' # posxy) =>
                clickxy' = clickxy /\ click_dmap' = click_dmap
          /\ (pc = "interactive" /\ clickxy' # clickxy) =>
                posxy' = posxy /\ point_dmap' = point_dmap ]_vars

\* the pointer and the last tap are at different places away from the initial
\* position, and the two plots show different spectra
C6_Witness ==
    /\ pc = "interactive"
    /\ posxy # clickxy
    /\ <<InitX, InitY>> \notin posxy \cup clickxy
    /\ Val(point_dmap).y # Val(click_dmap).y

\* the dataset the map displays: the gridded file, masked
DisplayedGeo == [ApplyGltx(file) EXCEPT !.reflectance = MaskWhere(@)]

\* C7: point_spectra and click_spectra share no mutable state: pointer and
\* tap callbacks in any order leave ds_geo, ds_rgb and the band indices as
\* they were, and each plot is the same function of its own (x, y) throughout.
C7_CallbacksIndependent ==
    [][ pc = "interactive" =>
          /\ ds_geo' = ds_geo /\ ds_rgb' = ds_rgb
          /\ b650' = b650 /\ b560' = b560 /\ b470' = b470
          /\ \A p \in posxy' :
                point_dmap' = {SpectrumPlot(DisplayedGeo, p[1], p[2], "#1b9e77")}
          /\ \A p \in clickxy' :
                click_dmap' = {SpectrumPlot(DisplayedGeo, p[1], p[2], "#d95f02")} ]_vars

\* both callbacks have run after the display, last with the same position
C7_Witness ==
    /\ pc = "interactive"
    /\ posxy = clickxy
    /\ <<InitX, InitY>> \notin posxy
    /\ Val(point_dmap).y = Val(click_dmap).y
    /\ \E k \in Bands : ~IsNaN(Val(point_dmap).y[k])

\* C8: gamma_adjust and the construction of rgb and ds_rgb leave the data
\* they read as it was: every reflectance value, wavelength and coordinate of
\* ds_geo is the same after the cell as before.
C8_GammaLeavesData ==
    [][ pc = "gamma" => ds_geo' = ds_geo /\ ds' = ds /\ file' = file ]_vars

\* the RGB dataset is built and ds_geo still has the missing cells of the
\* chosen band
C8_Witness ==
    /\ Past("gamma")
    /\ Defined(ds_rgb)
    /\ Val(ds_geo) = DisplayedGeo
    /\ \E c \in BandCells(Val(ds_geo).reflectance, Val(b650)) :
          IsNaN(Val(ds_geo).reflectance[c])
    /\ \E c \in BandCells(Val(ds_geo).reflectance, Val(b650)) :
          ~IsNaN(Val(ds_geo).reflectance[c])

\* the cell being run ends in an error shown to the session, and the run stops
StepFails == err' # "" /\ pc' = "halted"

\* the mean of the valid cells of a band of ds_geo, as sum and count
ValidCells(band) ==
    {c \in BandCells(Val(ds_geo).reflectance, band) : ~IsNaN(Val(ds_geo).reflectance[c])}
ValidSum(band) == SumValid(Val(ds_geo).reflectance, ValidCells(band))
MeanMissing(band) == ValidCells(band) = {}
MeanNonPositive(band) == ValidCells(band) # {} /\ ValidSum(band) <= 0
MeanIsOne(band) ==
    ValidCells(band) # {} /\ ValidSum(band) = 100 * Cardinality(ValidCells(band))

\* a step given a file or dataset lacking the group or variable it reads, or
\* a wavelength table with no entry, fails and assigns nothing
StructureErrorsSurface ==
    /\ (pc = "open_wvl" /\ "sensor_band_parameters" \notin DOMAIN file.groups) =>
          StepFails /\ wvl' = wvl
    /\ (pc = "open_loc" /\ "location" \notin DOMAIN file.groups) =>
          StepFails /\ loc' = loc
    /\ (pc \in {"plot_raw", "mask_ds"} /\ "reflectance" \notin DOMAIN Val(ds)) =>
          StepFails /\ ds' = ds
    /\ (pc \in {"plot_masked", "find_b650"} /\ "wavelengths" \notin DOMAIN Val(ds)) =>
          StepFails /\ b650' = b650
    /\ (/\ pc = "find_b650"
        /\ "wavelengths" \in DOMAIN Val(ds)
        /\ \A k \in DOMAIN Val(ds).wavelengths : IsNaN(Val(ds).wavelengths[k])) =>
          StepFails /\ b650' = b650
    /\ (/\ pc = "find_bands"
        /\ \A k \in DOMAIN Val(ds_geo).wavelengths : IsNaN(Val(ds_geo).wavelengths[k])) =>
          StepFails /\ UNCHANGED <<b650, b560, b470>>

\* the band means that count as malformed: non-positive or 1, and, when
\* withMissing, missing
BadMean(band, withMissing) ==
    \/ withMissing /\ MeanMissing(band)
    \/ MeanNonPositive(band)
    \/ MeanIsOne(band)

\* gamma_adjust given a band with a bad mean fails: that band is not scaled,
\* nor are the later ones, and no rgb, ds_rgb or map is built
GammaErrorsSurface(withMissing) ==
    pc = "gamma" =>
        /\ BadMean(Val(b650), withMissing) => StepFails /\ UNCHANGED <<r, g, b>>
        /\ BadMean(Val(b560), withMissing) => StepFails /\ UNCHANGED <<g, b>>
        /\ BadMean(Val(b470), withMissing) => StepFails /\ UNCHANGED b
        /\ StepFails => UNCHANGED <<rgb, ds_rgb, map>>

\* C9 as claimed: every malformed input (a missing group or variable, an
\* all-missing wavelength table, a band whose valid-value mean is missing,
\* non-positive or 1) makes its step end in an error, and nothing is derived
\* from it.
C9_AllMalformedRaise ==
    [][StructureErrorsSurface /\ GammaErrorsSurface(TRUE)]_vars

\* the scaled band is white everywhere
AllWhite(scaled) == \A c \in DOMAIN scaled : scaled[c].k = "num" /\ scaled[c].v = White

\* C9, amended: a missing group or variable, an all-missing wavelength
\* table, and a band whose valid-value mean is non-positive or 1 make their
\* step end in an error with nothing derived from them; a band with no valid
\* cell (mean missing) raises nothing and is returned all 1.
C9_MalformedRaiseExceptMissingMean ==
    [][ /\ StructureErrorsSurface
        /\ GammaErrorsSurface(FALSE)
        /\ (/\ pc = "gamma"
            /\ \A band \in {Val(b650), Val(b560), Val(b470)} : ~BadMean(band, FALSE)) =>
              /\ err' = "" /\ pc' = After("gamma")
              /\ MeanMissing(Val(b650)) => AllWhite(Val(r'))
              /\ MeanMissing(Val(b560)) => AllWhite(Val(g'))
              /\ MeanMissing(Val(b470)) => AllWhite(Val(b')) ]_vars

\* the green band has a non-positive mean: the cell stopped with ValueError
\* after scaling red, and neither g nor rgb exists
C9_Witness ==
    /\ pc = "halted"
    /\ err = "ValueError"
    /\ Defined(r) /\ ~Defined(g) /\ ~Defined(rgb) /\ ~Defined(ds_rgb)
    /\ MeanNonPositive(Val(b560))

\* a returned array against the band it was scaled from
ScaledFrom(scaled, band) ==
    \A c \in DOMAIN scaled :
        LET v == Val(ds_geo).reflectance[<<c[1], c[2], band>>]
        IN /\ scaled[c].k # "nan"
           /\ IsNaN(v) => scaled[c].k = "num" /\ scaled[c].v = 100
           /\ (~IsNaN(v) /\ 0 <= v /\ v <= 100) => InUnitInterval(scaled[c])

\* C10: an array returned by gamma_adjust has no missing value: a cell whose
\* input is missing is exactly 1, and a cell whose input is a valid value in
\* [0,1] is a non-missing value in [0,1].
C10_NoMissingOutput ==
    /\ Defined(r) => ScaledFrom(Val(r), Val(b650))
    /\ Defined(g) => ScaledFrom(Val(g), Val(b560))
    /\ Defined(b) => ScaledFrom(Val(b), Val(b470))

\* a scaled band whose input has a missing cell, the values 0 and 1, and
\* whose output for 0 and 1 is 0 and 1
C10_Witness ==
    /\ Defined(b)
    /\ \E c1, c2, c3 \in DOMAIN Val(r) :
          LET a == Val(ds_geo).reflectance
              k == Val(b650)
          IN /\ IsNaN(a[<<c1[1], c1[2], k>>]) /\ Val(r)[c1].v = 100
             /\ a[<<c2[1], c2[2], k>>] = 0 /\ Val(r)[c2].v = 0
             /\ a[<<c3[1], c3[2], k>>] = 100 /\ Val(r)[c3].v = 100

\* C11: masking is idempotent under re-running a cell: when either masking
\* cell is run a second time, on a dataset (ds or ds_geo) that is already
\* masked, every reflectance cell, missing or not, is exactly as it was after
\* the first application, and so is the rest of the dataset.
C11_MaskingIdempotent ==
    [][ /\ RerunMaskDs => ds' = ds
        /\ RerunMaskGeo => ds_geo' = ds_geo ]_vars

\* late in the session, with both masking cells free to be run again: ds has a
\* cell the first application turned missing and a kept value, ds_geo has
\* those and a cell that was missing before, and a second application gives
\* the same cells
C11_Witness ==
    /\ pc = "interactive" /\ Past("mask_ds") /\ Past("mask_geo")
    /\ \E c1, c2 \in DOMAIN UnmaskedDs :
          /\ UnmaskedDs[c1] = Sentinel /\ IsNaN(Val(ds).reflectance[c1])
          /\ UnmaskedDs[c2] = 50 /\ Val(ds).reflectance[c2] = 50
    /\ \E c1, c2, c3 \in DOMAIN UnmaskedGeo :
          /\ UnmaskedGeo[c1] = Sentinel /\ IsNaN(Val(ds_geo).reflectance[c1])
          /\ UnmaskedGeo[c2] = 50 /\ Val(ds_geo).reflectance[c2] = 50
          /\ IsNaN(UnmaskedGeo[c3]) /\ IsNaN(Val(ds_geo).reflectance[c3])
    /\ MaskWhere(Val(ds).reflectance) = Val(ds).reflectance
    /\ MaskWhere(Val(ds_geo).reflectance) = Val(ds_geo).reflectance
====
